---------------------------- MODULE Spec2Model ----------------------------
(***************************************************************************)
(* A model of teetool's Model class (src/teetool/model.py): the query      *)
(* caches of evalLogLikelihood / isInside_grid, the grid <-> point         *)
(* conversion, the pool evaluation, the EM loop of _model_by_em, the       *)
(* constructor's settings validation and normalisation, and the station    *)
(* cell extraction of _getMuSigma.                                         *)
(*                                                                         *)
(* Conventions.  Python indices are 0-based and are kept 0-based in index  *)
(* tuples; TLA+ sequences are 1-based, so element i of a Python list is    *)
(* element i+1 of the sequence that models it.  A float is a pair          *)
(* <<kind, n>>: <<"fin", n>> is the finite value n, and <<"nan", 0>>,      *)
(* <<"inf", 0>>, <<"ninf", 0>> are NaN, +infinity and -infinity.           *)
(***************************************************************************)
EXTENDS Integers, Sequences, FiniteSets, TLC

VARIABLES
    \* ---- one constructed Model instance and its caller (queries) ----
    qpc,          \* "idle": the caller is between calls; "returned": a call just returned
    ndim,         \* self._ndim
    ngaus,        \* len(self._cc): the number of stations
    list_logp,    \* self._list_logp
    list_tube,    \* self._list_tube
    call,         \* the arguments of the call that just returned
    ret,          \* what that call returned or raised
    \* ---- one evaluation on the worker pool, task by task ----
    ppc,          \* "idle", "running", "done" or "failed"
    slots,        \* the result of each finished task, by index of submission
    order,        \* the task indices in the order the workers finished them
    \* ---- the loop of _model_by_em ----
    em_pc,        \* "loop", "project" or "done"
    i_iter,       \* the number of iterations started so far
    loglikelihood_previous,
    loglikelihood_pY,
    mu_w,         \* the iteration whose M-step computed the prior mean (0: the initial one)
    sig_w,        \* the iteration whose M-step computed the prior covariance
    lastFinite,   \* the last iteration whose log-likelihood was finite (0: none)
    em_out,       \* (mu_y, sig_y): the iterations whose mu_w and sig_w were projected
    \* ---- the constructor and its caller ----
    cluster_data, \* the caller's list of trajectories (their progress values)
    original_data,\* that list as the caller built it
    settings,     \* the settings of the last construction
    ctor,         \* how the last construction ended
    \* ---- station cells ----
    mu_y,         \* self._mu_y, the joint mean
    mat,          \* whether self._mu_y is an np.matrix (ML, EM) or an ndarray (resampling)
    npoint,       \* the station index last asked for
    cell,         \* what _getMuSigma returned or raised for it
    mean,         \* what getMean returned last
    \* ---- the grid conversion, given the value of every point ----
    gq,           \* the grid axes xx, yy, zz
    gs,           \* the value of each point, in the order of the point list
    gout,         \* what _points2grid made of them
    \* ---- random draws ----
    rng,          \* the state of numpy's global random generator
    samples,      \* the last getSamples call: its count and what it returned
    first         \* for each count asked for so far, what the first call returned

queryVars == <<qpc, ndim, ngaus, list_logp, list_tube, call, ret>>
poolVars == <<ppc, slots, order>>
emVars == <<em_pc, i_iter, loglikelihood_previous, loglikelihood_pY, mu_w, sig_w,
            lastFinite, em_out>>
ctorVars == <<cluster_data, original_data, settings, ctor>>
cellVars == <<mu_y, mat, npoint, cell, mean>>

valVars == <<gq, gs, gout>>
sampleVars == <<rng, samples, first>>

vars == <<queryVars, poolVars, emVars, ctorVars, cellVars, valVars, sampleVars>>

-----------------------------------------------------------------------------
(* Floats *)

Fin(n) == <<"fin", n>>
NaN == <<"nan", 0>>
PosInf == <<"inf", 0>>
NegInf == <<"ninf", 0>>

IsNan(v) == v[1] = "nan"
IsFinite(v) == v[1] = "fin"

\* v <= w for floats that are not NaN
FloatLeq(v, w) ==
    \/ v[1] = "ninf"
    \/ w[1] = "inf"
    \/ v[1] = "fin" /\ w[1] = "fin" /\ v[2] <= w[2]

SetMax(S) == CHOOSE m \in S : \A x \in S : x <= m

RECURSIVE ConcatAll(_)
ConcatAll(ss) == IF ss = <<>> THEN <<>> ELSE Head(ss) \o ConcatAll(Tail(ss))

-----------------------------------------------------------------------------
(* numpy arrays.  A grid axis array as np.mgrid builds it has a shape and  *)
(* varies along one axis only: element idx is vals[idx[ax]].  None is the  *)
(* array of no shape.                                                      *)

NoneArr == [shape |-> <<>>, ax |-> 0, vals |-> <<>>]
IsNone(A) == A.ax = 0

\* A[idx] for a 0-based index tuple idx
At(A, idx) == A.vals[idx[A.ax] + 1]

\* every index tuple of an array of this shape
Indices(shape) ==
    IF Len(shape) = 2
    THEN {<<i, j>> : i \in 0..(shape[1] - 1), j \in 0..(shape[2] - 1)}
    ELSE {<<i, j, k>> : i \in 0..(shape[1] - 1), j \in 0..(shape[2] - 1),
                        k \in 0..(shape[3] - 1)}

\* numpy's broadcasting of two shapes of the same rank
Broadcastable(s, t) ==
    /\ Len(s) = Len(t)
    /\ \A d \in 1..Len(s) : s[d] = t[d] \/ s[d] = 1 \/ t[d] = 1

BroadcastShape(s, t) == [d \in 1..Len(s) |-> IF s[d] = 1 THEN t[d] ELSE s[d]]

\* the index into an array of shape s that broadcasting reads for idx
Clip(idx, s) == [d \in 1..Len(s) |-> IF s[d] = 1 THEN 0 ELSE idx[d]]

\* np.all(A == B) as the cache lookups use it: None == None is True, an
\* array against None is False everywhere, arrays are compared element by
\* element after broadcasting, and shapes that do not broadcast compare
\* False (the numpy of this code's Python 2 era).
NpAllEq(A, B) ==
    IF IsNone(A) \/ IsNone(B) THEN IsNone(A) /\ IsNone(B)
    ELSE IF ~Broadcastable(A.shape, B.shape) THEN FALSE
    ELSE \A idx \in Indices(BroadcastShape(A.shape, B.shape)) :
            At(A, Clip(idx, A.shape)) = At(B, Clip(idx, B.shape))


\* the value-equality the claims speak of: same shape, same elements
ArrayEqual(A, B) ==
    IF IsNone(A) \/ IsNone(B) THEN IsNone(A) /\ IsNone(B)
    ELSE /\ A.shape = B.shape
         /\ \A idx \in Indices(A.shape) : At(A, idx) = At(B, idx)

\* a result array: a shape and a value per index tuple; NoneSS is None
NoneSS == [shape |-> <<>>, data |-> <<>>]

-----------------------------------------------------------------------------
(* Grid <-> points *)

\* _grid2points: every combination of coordinates, x outermost
Grid2points(xx, yy, zz) ==
    LET nx == xx.shape[1]
        ny == yy.shape[2]
        nz == IF ndim = 3 THEN zz.shape[3] ELSE 1
        row2(ix) == [k \in 1..ny |->
                        [pos |-> <<At(xx, <<ix, 0>>), At(yy, <<0, k - 1>>)>>,
                         idx |-> <<ix, k - 1>>]]
        row3(ix, iy) == [k \in 1..nz |->
                        [pos |-> <<At(xx, <<ix, 0, 0>>), At(yy, <<0, iy, 0>>),
                                   At(zz, <<0, 0, k - 1>>)>>,
                         idx |-> <<ix, iy, k - 1>>]]
        pts == IF ndim = 2
               THEN ConcatAll([i \in 1..nx |-> row2(i - 1)])
               ELSE ConcatAll([i \in 1..nx |->
                        ConcatAll([j \in 1..ny |-> row3(i - 1, j - 1)])])
    IN  [Y_pos |-> [k \in 1..Len(pts) |-> pts[k].pos],
         Y_idx |-> [k \in 1..Len(pts) |-> pts[k].idx]]

\* np.array(list).squeeze() of a list whose np.array has shape `shape`:
\* every axis of length 1 is dropped
RECURSIVE SqueezeShape(_)
SqueezeShape(shape) ==
    IF shape = <<>> THEN <<>>
    ELSE IF Head(shape) = 1 THEN SqueezeShape(Tail(shape))
    ELSE <<Head(shape)>> \o SqueezeShape(Tail(shape))

\* _points2grid writing each value at its index tuple read backwards
Points2grid_Reversed(s, Y_idx) ==
    LET rank == Len(Y_idx[1])
        rev(idx) == [d \in 1..rank |-> idx[rank + 1 - d]]
        this_shape == [d \in 1..rank |->
                         SetMax({Y_idx[i][d] : i \in 1..Len(Y_idx)}) + 1]
        filled(idx) == LET at == {i \in 1..Len(Y_idx) : rev(Y_idx[i]) = idx}
                       IN  IF at = {} THEN Fin(0) ELSE s.vals[SetMax(at)]
    IN  IF s.shape = <<>> \/ \E i \in 1..Len(Y_idx) : rev(Y_idx[i]) \notin Indices(this_shape)
        THEN [exc |-> "IndexError", ss |-> NoneSS]
        ELSE [exc |-> "",
              ss |-> [shape |-> this_shape,
                      data |-> [idx \in Indices(this_shape) |-> filled(idx)]]]

\* _points2grid: an array of zeros of shape max(Y_idx) + 1, filled in the
\* order of the list (a later row of Y_idx overwrites an earlier one).
\* s[i] raises IndexError when the squeeze has left s without an axis.
Points2grid(s, Y_idx) ==
    LET rank == Len(Y_idx[1])
        this_shape == [d \in 1..rank |->
                         SetMax({Y_idx[i][d] : i \in 1..Len(Y_idx)}) + 1]
        filled(idx) == LET at == {i \in 1..Len(Y_idx) : Y_idx[i] = idx}
                     IN  IF at = {} THEN Fin(0) ELSE s.vals[SetMax(at)]
    IN  IF s.shape = <<>>
        THEN [exc |-> "IndexError", ss |-> NoneSS]
        ELSE [exc |-> "",
              ss |-> [shape |-> this_shape,
                      data |-> [idx \in Indices(this_shape) |-> filled(idx)]]]

-----------------------------------------------------------------------------
(* Per-point evaluation *)

\* tt.helpers.gauss_logLc: the log-likelihood of one point under the
\* station cells of this instance.  Its value is a function of the point
\* alone; this one tells the points of a grid apart.
Gauss_logLc(y) ==
    Fin(0 - (y[1] + 3 * y[2] + (IF Len(y) = 3 THEN 9 * y[3] ELSE 0)))

\* the list_val of Pool.map with the results taken in the order of completion
GatherResults_ByCompletion(done, finished) ==
    [k \in 1..Len(finished) |-> done[finished[k]]]

\* the list_val of Pool.map: the result of task k is element k
GatherResults(done, finished) ==
    [k \in 1..Len(finished) |-> done[k]]

\* Pool.map, given the result of every task: the results listed in the order
\* of submission; a task that raises makes map raise in the caller
PoolMap(done, workerFails) ==
    IF workerFails
    THEN [exc |-> "WorkerError", list_val |-> <<>>]
    ELSE [exc |-> "", list_val |-> GatherResults(done, [k \in 1..Len(done) |-> k])]

\* s = np.array(list_val).squeeze()
SqueezeList(list_val) ==
    [shape |-> SqueezeShape(<<Len(list_val)>>), vals |-> list_val]

\* _eval_logp: map the points over the pool, then squeeze
Eval_logp(Y_pos, workerFails) ==
    LET m == PoolMap([k \in 1..Len(Y_pos) |-> Gauss_logLc(Y_pos[k])], workerFails)
    IN  IF m.exc # "" THEN [exc |-> m.exc, s |-> [shape |-> <<>>, vals |-> <<>>]]
        ELSE [exc |-> "", s |-> SqueezeList(m.list_val)]

\* the i-th station's mean (self._cc[i]): the stations lie on the x axis
StationMean(i) == [d \in 1..ndim |-> IF d = 1 THEN 2 + 2 * i ELSE 0]

\* _get_point_cloud: one cloud per pair of consecutive stations
Get_point_cloud(sdwidth, nsamples) ==
    [i \in 1..(ngaus - 1) |->
        [lo |-> StationMean(i - 1), hi |-> StationMean(i), w |-> sdwidth]]

\* tt.helpers.in_hull, for one point: is it inside the hull of the cloud
\* that the ellipsoids of width w around the two stations span
In_hull(y, Y) ==
    /\ Y.lo[1] - Y.w <= y[1] /\ y[1] <= Y.hi[1] + Y.w
    /\ \A d \in 2..Len(y) : 0 - Y.w <= y[d] /\ y[d] <= Y.w

Bool2Float(b) == IF b THEN Fin(1) ELSE Fin(0)

\* isInside_pnts: one pool task per cloud, each testing all N points and
\* returning an (N, 1) array; the list is squeezed and transposed and
\* np.any is taken along axis 1, which exists only when both the number of
\* clouds and the number of points exceed 1
IsInside_pnts(P, sdwidth, nsamples, workerFails) ==
    LET list_Y == Get_point_cloud(sdwidth, nsamples)
        inside(Y) == [k \in 1..Len(P) |-> In_hull(P[k], Y)]
        m == PoolMap([i \in 1..Len(list_Y) |-> inside(list_Y[i])], workerFails)
        raw == IF Len(list_Y) = 0 THEN <<0>> ELSE <<Len(list_Y), Len(P), 1>>
        none == [shape |-> <<>>, vals |-> <<>>]
    IN  IF m.exc # "" THEN [exc |-> m.exc, s |-> none]
        ELSE IF Len(SqueezeShape(raw)) < 2 THEN [exc |-> "AxisError", s |-> none]
        ELSE [exc |-> "",
              s |-> [shape |-> <<Len(P)>>,
                     vals |-> [k \in 1..Len(P) |->
                                 Bool2Float(\E i \in 1..Len(list_Y) :
                                                m.list_val[i][k])]]]

-----------------------------------------------------------------------------
(* The two query caches *)

\* np.nanmin: the least value that is not NaN; NaN when there is none
NanMin(vals) ==
    LET real == {v \in vals : ~IsNan(v)}
    IN  IF real = {} THEN NaN
        ELSE CHOOSE m \in real : \A v \in real : FloatLeq(m, v)

\* ss[np.isnan(ss)] = np.nanmin(ss)
ReplaceNan(ss) ==
    LET low == NanMin({ss.data[idx] : idx \in DOMAIN ss.data})
    IN  [ss EXCEPT !.data = [idx \in DOMAIN ss.data |->
                                IF IsNan(ss.data[idx]) THEN low ELSE ss.data[idx]]]

\* an insertion at the front instead of the end
StoreEntry_Front(list, entry) == <<entry>> \o list

\* self._list_logp.append(...) / self._list_tube.append(...)
StoreEntry(list, entry) == Append(list, entry)

\* the loop over self._list_logp: the last entry that compares equal wins
LookupLogp(xx, yy, zz) ==
    LET hits == {i \in 1..Len(list_logp) :
                    /\ NpAllEq(list_logp[i].xx, xx)
                    /\ NpAllEq(list_logp[i].yy, yy)
                    /\ NpAllEq(list_logp[i].zz, zz)}
    IN  IF hits = {} THEN NoneSS ELSE list_logp[SetMax(hits)].ss

\* the loop over self._list_tube
LookupTube(sdwidth, xx, yy, zz) ==
    LET hits == {i \in 1..Len(list_tube) :
                    /\ NpAllEq(list_tube[i].xx, xx)
                    /\ NpAllEq(list_tube[i].yy, yy)
                    /\ NpAllEq(list_tube[i].zz, zz)
                    /\ list_tube[i].sdwidth = sdwidth}
    IN  IF hits = {} THEN NoneSS ELSE list_tube[SetMax(hits)].ss

\* What a call does: exc is the exception it raises ("" for none), ss the
\* array it returns, evaluated whether the per-point evaluation was run,
\* and stored whether an entry was appended.
Outcome(exc, ss, evaluated, stored) ==
    [exc |-> exc, ss |-> ss, evaluated |-> evaluated, stored |-> stored]

\* the end of evalLogLikelihood's miss branch: scatter the values to the
\* grid, replace the NaNs, and have the result stored
ScatterLogp(s, Y_idx) ==
    LET p == Points2grid(s, Y_idx)
    IN  IF p.exc # "" THEN Outcome(p.exc, NoneSS, TRUE, FALSE)
        ELSE Outcome("", ReplaceNan(p.ss), TRUE, TRUE)

\* evalLogLikelihood with the entry stored before the evaluation is known
\* to have succeeded
RunEvalLogLikelihood_StoreFirst(xx, yy, zz, workerFails) ==
    LET found == LookupLogp(xx, yy, zz)
        g == Grid2points(xx, yy, zz)
        e == Eval_logp(g.Y_pos, workerFails)
    IN  IF xx.shape # yy.shape THEN Outcome("ValueError", NoneSS, FALSE, FALSE)
        ELSE IF found # NoneSS THEN Outcome("", found, FALSE, FALSE)
        ELSE IF e.exc # "" THEN Outcome(e.exc, NoneSS, TRUE, TRUE)
        ELSE ScatterLogp(e.s, g.Y_idx)

\* evalLogLikelihood
RunEvalLogLikelihood(xx, yy, zz, workerFails) ==
    LET found == LookupLogp(xx, yy, zz)
        g == Grid2points(xx, yy, zz)
        e == Eval_logp(g.Y_pos, workerFails)
    IN  IF xx.shape # yy.shape THEN Outcome("ValueError", NoneSS, FALSE, FALSE)
        ELSE IF found # NoneSS THEN Outcome("", found, FALSE, FALSE)
        ELSE IF e.exc # "" THEN Outcome(e.exc, NoneSS, TRUE, FALSE)
        ELSE ScatterLogp(e.s, g.Y_idx)

\* nsamples=12 in isInside_grid
TubeSamples == 12

\* isInside_grid
RunIsInside_grid(sdwidth, xx, yy, zz, workerFails) ==
    LET found == LookupTube(sdwidth, xx, yy, zz)
        g == Grid2points(xx, yy, zz)
        e == IsInside_pnts(g.Y_pos, sdwidth, TubeSamples, workerFails)
        p == Points2grid(e.s, g.Y_idx)
    IN  IF xx.shape # yy.shape THEN Outcome("ValueError", NoneSS, FALSE, FALSE)
        ELSE IF found # NoneSS THEN Outcome("", found, FALSE, FALSE)
        ELSE IF e.exc # "" THEN Outcome(e.exc, NoneSS, TRUE, FALSE)
        ELSE IF p.exc # "" THEN Outcome(p.exc, NoneSS, TRUE, FALSE)
        ELSE Outcome("", p.ss, TRUE, TRUE)

-----------------------------------------------------------------------------
(* The caller: the grids it asks about *)

\* the axes the caller builds its grids from: a single value, a constant
\* axis of two values (np.mgrid[0:0:2j]) and an axis of two different values
Axes == {<<0>>, <<0, 0>>, <<0, 2>>}
ShortAxes == {<<0>>, <<0, 0>>}

\* np.mgrid over the axes xs, ys (, zs): arrays of one common shape, each
\* varying along its own axis
Mgrid2(xs, ys) ==
    LET shape == <<Len(xs), Len(ys)>>
    IN  [xx |-> [shape |-> shape, ax |-> 1, vals |-> xs],
         yy |-> [shape |-> shape, ax |-> 2, vals |-> ys],
         zz |-> NoneArr]

Mgrid3(xs, ys, zs) ==
    LET shape == <<Len(xs), Len(ys), Len(zs)>>
    IN  [xx |-> [shape |-> shape, ax |-> 1, vals |-> xs],
         yy |-> [shape |-> shape, ax |-> 2, vals |-> ys],
         zz |-> [shape |-> shape, ax |-> 3, vals |-> zs]]

Grids ==
    IF ndim = 2 THEN {Mgrid2(xs, ys) : xs \in Axes, ys \in ShortAxes}
    ELSE {Mgrid3(<<0, 2>>, ys, zs) : ys \in ShortAxes, zs \in Axes}

Sdwidths == {1, 2}

\* the number of stations of the instance that is queried
NStations == 3

\* the most entries the two caches hold together
MaxEntries == 2

NoCall == [op |-> "", sdwidth |-> 0, xx |-> NoneArr, yy |-> NoneArr, zz |-> NoneArr]
NoRet == Outcome("", NoneSS, FALSE, FALSE)

Room == Len(list_logp) + Len(list_tube) < MaxEntries

-----------------------------------------------------------------------------
(* Operations on a constructed instance *)

\* the parts of the state an operation on the caches does not touch
PoolIdle == ppc = "idle" /\ slots = <<>> /\ order = <<>>
EmIdle ==
    /\ em_pc = "done" /\ i_iter = 0
    /\ loglikelihood_previous = PosInf /\ loglikelihood_pY = PosInf
    /\ mu_w = 0 /\ sig_w = 0 /\ lastFinite = 0 /\ em_out = 0
CtorIdle ==
    /\ cluster_data = <<>> /\ original_data = <<>>
    /\ settings = <<>> /\ ctor = <<>>
CellIdle == mu_y = <<>> /\ mat = FALSE /\ npoint = 0 /\ cell = <<>> /\ mean = <<>>
ValIdle == gq = <<>> /\ gs = <<>> /\ gout = <<>>
SampleIdle == rng = 0 /\ samples = <<>> /\ first = <<>>

InitQuery ==
    /\ PoolIdle /\ EmIdle /\ CtorIdle /\ CellIdle /\ ValIdle /\ SampleIdle
    /\ qpc = "idle"
    /\ ndim \in {2, 3}
    /\ ngaus = NStations
    /\ list_logp = <<>>
    /\ list_tube = <<>>
    /\ call = NoCall
    /\ ret = NoRet

EvalLogLikelihood(g, workerFails) ==
    LET r == RunEvalLogLikelihood(g.xx, g.yy, g.zz, workerFails)
    IN  /\ qpc = "idle"
        /\ workerFails => r.exc = "WorkerError"
        /\ r.stored => Room
        /\ list_logp' = IF r.stored
                        THEN StoreEntry(list_logp,
                                 [ss |-> r.ss, xx |-> g.xx, yy |-> g.yy, zz |-> g.zz])
                        ELSE list_logp
        /\ call' = [op |-> "logp", sdwidth |-> 0, xx |-> g.xx, yy |-> g.yy, zz |-> g.zz]
        /\ ret' = r
        /\ qpc' = "returned"
        /\ UNCHANGED <<ndim, ngaus, list_tube, poolVars, emVars, ctorVars, cellVars,
                       valVars, sampleVars>>

IsInside_grid(sdwidth, g, workerFails) ==
    LET r == RunIsInside_grid(sdwidth, g.xx, g.yy, g.zz, workerFails)
    IN  /\ qpc = "idle"
        /\ workerFails => r.exc = "WorkerError"
        /\ r.stored => Room
        /\ list_tube' = IF r.stored
                        THEN StoreEntry(list_tube,
                                 [ss |-> r.ss, sdwidth |-> sdwidth,
                                  xx |-> g.xx, yy |-> g.yy, zz |-> g.zz])
                        ELSE list_tube
        /\ call' = [op |-> "tube", sdwidth |-> sdwidth,
                    xx |-> g.xx, yy |-> g.yy, zz |-> g.zz]
        /\ ret' = r
        /\ qpc' = "returned"
        /\ UNCHANGED <<ndim, ngaus, list_logp, poolVars, emVars, ctorVars, cellVars,
                       valVars, sampleVars>>

\* the caller takes what the call returned or raised
Return ==
    /\ UNCHANGED <<valVars, sampleVars>>
    /\ qpc = "returned"
    /\ qpc' = "idle"
    /\ call' = NoCall
    /\ ret' = NoRet
    /\ UNCHANGED <<ndim, ngaus, list_logp, list_tube, poolVars, emVars, ctorVars, cellVars>>

NextQuery ==
    \/ \E g \in Grids, wf \in BOOLEAN : EvalLogLikelihood(g, wf)
    \/ \E w \in Sdwidths, g \in Grids, wf \in BOOLEAN : IsInside_grid(w, g, wf)
    \/ Return

SpecQuery == InitQuery /\ [][NextQuery]_vars

-----------------------------------------------------------------------------
(* Claims about the query caches, checked under SpecQuery *)

\* the cache the returned call looked in, as it was before the call
CacheBefore ==
    LET list == IF call.op = "logp" THEN list_logp ELSE list_tube
    IN  IF ret.stored THEN SubSeq(list, 1, Len(list) - 1) ELSE list

\* an earlier call of the same operation, whose result is stored, had
\* value-equal axes (and spread width)
EarlierEqual ==
    \E i \in 1..Len(CacheBefore) :
        /\ ArrayEqual(CacheBefore[i].xx, call.xx)
        /\ ArrayEqual(CacheBefore[i].yy, call.yy)
        /\ ArrayEqual(CacheBefore[i].zz, call.zz)
        /\ call.op = "tube" => CacheBefore[i].sdwidth = call.sdwidth

\* the call returned a stored result without evaluating
ServedFromCache ==
    /\ ret.exc = ""
    /\ ~ret.evaluated
    /\ \E i \in 1..Len(CacheBefore) : CacheBefore[i].ss = ret.ss

\* C1: a call returns the stored result of an earlier call of the same
\* operation, without evaluating again, if and only if that earlier call
\* had value-equal axes xx, yy, zz (and spread width); a call that differs
\* from every earlier call is evaluated afresh.
C1_HitIffValueEqual ==
    qpc = "returned" =>
        /\ ServedFromCache <=> EarlierEqual
        /\ ~EarlierEqual => ret.evaluated

IsPrefix(a, b) == Len(a) <= Len(b) /\ SubSeq(b, 1, Len(a)) = a

\* the entry a returned call must have stored when it evaluated
EntryOf(c, r) ==
    IF c.op = "logp"
    THEN [ss |-> r.ss, xx |-> c.xx, yy |-> c.yy, zz |-> c.zz]
    ELSE [ss |-> r.ss, sdwidth |-> c.sdwidth, xx |-> c.xx, yy |-> c.yy, zz |-> c.zz]

C2_Step ==
    /\ IsPrefix(list_logp, list_logp')
    /\ IsPrefix(list_tube, list_tube')
    /\ qpc' # "returned" => list_logp' = list_logp /\ list_tube' = list_tube
    /\ qpc' = "returned" =>
        LET fresh == ret'.exc = "" /\ ret'.evaluated
            mine == IF call'.op = "logp" THEN list_logp ELSE list_tube
            mine2 == IF call'.op = "logp" THEN list_logp' ELSE list_tube'
        IN  /\ call'.op = "logp" => list_tube' = list_tube
            /\ call'.op = "tube" => list_logp' = list_logp
            /\ fresh => mine2 = Append(mine, EntryOf(call', ret'))
            /\ ~fresh => mine2 = mine

\* C2: both caches are append-only: a call that returns a freshly
\* evaluated result appends exactly one entry (its axes and its result) to
\* its own cache, a hit or a failing call appends none, no entry is ever
\* removed, reordered or replaced, and neither operation touches the other
\* operation's cache.
C2_AppendOnly == [][C2_Step]_vars

\* C2's case: a hit on a cache that holds two entries
C2_Witness ==
    /\ qpc = "returned" /\ ServedFromCache
    /\ Len(list_logp) + Len(list_tube) = 2

C5_Step ==
    (qpc' = "returned" /\ ret'.exc = "WorkerError") =>
        /\ list_logp' = list_logp
        /\ list_tube' = list_tube
        /\ ret'.ss = NoneSS
        \* the caches being as they were, the same query asked of them again
        /\ IF call'.op = "logp"
           THEN RunEvalLogLikelihood(call'.xx, call'.yy, call'.zz, FALSE).evaluated
           ELSE RunIsInside_grid(call'.sdwidth, call'.xx, call'.yy, call'.zz,
                                 FALSE).evaluated

\* C5: when a pool worker fails during a query, the query raises, returns
\* no array and leaves both caches as they were, so that the same query
\* asked again is evaluated again.
C5_WorkerFailureAborts == [][C5_Step]_vars

\* C5's case: a worker failed in a query on an instance that holds entries
C5_Witness ==
    /\ qpc = "returned" /\ ret.exc = "WorkerError"
    /\ list_logp # <<>> /\ list_tube # <<>>

-----------------------------------------------------------------------------
(* One evalLogLikelihood call on a new instance, with the pool's tasks      *)
(* finishing one by one in any order                                        *)

\* the longest grid axis and the most points of a grid
MaxAxisLen == 3
MaxPoints == 4

\* an axis of n equally spaced values, as np.mgrid[0:2(n-1):nj] gives
PoolAxes == {[k \in 1..n |-> 2 * (k - 1)] : n \in 1..MaxAxisLen}

PoolGrids ==
    IF ndim = 2
    THEN {Mgrid2(xs, ys) : xs \in PoolAxes, ys \in PoolAxes}
    ELSE {Mgrid3(xs, ys, zs) : xs \in PoolAxes, ys \in PoolAxes, zs \in PoolAxes}

NPoints(g) == Cardinality(Indices(g.xx.shape))

InitPool ==
    /\ EmIdle /\ CtorIdle /\ CellIdle /\ ValIdle /\ SampleIdle
    /\ qpc = "idle"
    /\ ndim \in {2, 3}
    /\ ngaus = NStations
    /\ list_logp = <<>>
    /\ list_tube = <<>>
    /\ call = NoCall
    /\ ret = NoRet
    /\ PoolIdle

\* evalLogLikelihood up to p.map: the shapes agree, the cache holds no
\* match, the points are listed and submitted
PoolSubmit(g) ==
    /\ UNCHANGED <<valVars, sampleVars>>
    /\ ppc = "idle"
    /\ NPoints(g) <= MaxPoints
    /\ g.xx.shape = g.yy.shape
    /\ LookupLogp(g.xx, g.yy, g.zz) = NoneSS
    /\ call' = [op |-> "logp", sdwidth |-> 0, xx |-> g.xx, yy |-> g.yy, zz |-> g.zz]
    /\ ppc' = "running"
    /\ slots' = <<>>
    /\ order' = <<>>
    /\ UNCHANGED <<qpc, ndim, ngaus, list_logp, list_tube, ret, emVars, ctorVars, cellVars>>

Submitted == Grid2points(call.xx, call.yy, call.zz)
Unfinished == (1..Len(Submitted.Y_pos)) \ {order[i] : i \in 1..Len(order)}

\* a worker finishes task k: func(Y_pos_list[k])
WorkerDone(k) ==
    /\ UNCHANGED <<valVars, sampleVars>>
    /\ ppc = "running"
    /\ k \in Unfinished
    /\ slots' = [i \in (DOMAIN slots) \cup {k} |->
                    IF i = k THEN Gauss_logLc(Submitted.Y_pos[k]) ELSE slots[i]]
    /\ order' = Append(order, k)
    /\ UNCHANGED <<qpc, ndim, ngaus, list_logp, list_tube, call, ret, ppc,
                   emVars, ctorVars, cellVars>>

\* a worker raises in task k: p.map raises in evalLogLikelihood
WorkerFail(k) ==
    /\ UNCHANGED <<valVars, sampleVars>>
    /\ ppc = "running"
    /\ k \in Unfinished
    /\ ppc' = "failed"
    /\ ret' = Outcome("WorkerError", NoneSS, TRUE, FALSE)
    /\ UNCHANGED <<qpc, ndim, ngaus, list_logp, list_tube, call, slots, order,
                   emVars, ctorVars, cellVars>>

\* p.map returns: squeeze, scatter, replace the NaNs, store, return
PoolGather ==
    /\ UNCHANGED <<valVars, sampleVars>>
    /\ ppc = "running"
    /\ Unfinished = {}
    /\ LET r == ScatterLogp(SqueezeList(GatherResults(slots, order)), Submitted.Y_idx)
       IN  /\ ret' = r
           /\ list_logp' = IF r.stored
                           THEN StoreEntry(list_logp, EntryOf(call, r))
                           ELSE list_logp
    /\ ppc' = "done"
    /\ UNCHANGED <<qpc, ndim, ngaus, list_tube, call, slots, order,
                   emVars, ctorVars, cellVars>>

NextPool ==
    \/ \E g \in PoolGrids : PoolSubmit(g)
    \/ \E k \in 1..MaxPoints : WorkerDone(k)
    \/ \E k \in 1..MaxPoints : WorkerFail(k)
    \/ PoolGather

SpecPool == InitPool /\ [][NextPool]_vars

\* the point of the grid at a multi-index
PointAt(idx) ==
    IF ndim = 2 THEN <<At(call.xx, idx), At(call.yy, idx)>>
    ELSE <<At(call.xx, idx), At(call.yy, idx), At(call.zz, idx)>>

\* C6: whatever the order in which the workers finish, the value that
\* evalLogLikelihood stores in the result grid at multi-index (ix, iy[, iz])
\* is the evaluation of the point (xx[ix], yy[iy][, zz[iz]]).
C6_ScatterByIndex ==
    (ppc = "done" /\ ret.exc = "") =>
        /\ ret.ss.shape = call.xx.shape
        /\ \A idx \in Indices(call.xx.shape) :
              ~IsNan(Gauss_logLc(PointAt(idx))) =>
                  ret.ss.data[idx] = Gauss_logLc(PointAt(idx))
        /\ list_logp = <<EntryOf(call, ret)>>

\* C6's case: the last task submitted finished first, and a result came back
C6_Witness ==
    /\ ppc = "done" /\ ret.exc = ""
    /\ Len(order) >= 3
    /\ order[1] = Len(order)

-----------------------------------------------------------------------------
(* The loop of _model_by_em.  Log-likelihoods are floats in units of 1e-4;  *)
(* the parameters mu_w and sig_w are identified by the iteration whose      *)
(* M-step computed them (0: the initial zeros and identity); lastFinite     *)
(* records the last iteration whose log-likelihood was finite               *)

MAX_ITERATIONS == 2001
\* CONV_LIKELIHOOD = 1e-3, in units of 1e-4
CONV_LIKELIHOOD == 10

\* np.abs(a - b)
FloatAbsDiff(a, b) ==
    IF IsNan(a) \/ IsNan(b) THEN NaN
    ELSE IF IsFinite(a) /\ IsFinite(b)
         THEN Fin(IF a[2] >= b[2] THEN a[2] - b[2] ELSE b[2] - a[2])
    ELSE IF a = b THEN NaN
    ELSE PosInf

\* a < b, False when either is NaN
FloatLt(a, b) ==
    /\ ~IsNan(a) /\ ~IsNan(b)
    /\ a # b
    /\ FloatLeq(a, b)

\* the joint log-likelihoods an iteration can compute
LogLikelihoods == {Fin(0), Fin(5), Fin(15), NaN, PosInf, NegInf}

\* the convergence test with the tolerance itself counted as converged
Converged_Inclusive(pY, previous) ==
    FloatLeq(FloatAbsDiff(pY, previous), Fin(CONV_LIKELIHOOD))

\* loglikelihood_diff < CONV_LIKELIHOOD
Converged(pY, previous) ==
    FloatLt(FloatAbsDiff(pY, previous), Fin(CONV_LIKELIHOOD))

InitEM ==
    /\ PoolIdle /\ CtorIdle /\ CellIdle /\ ValIdle /\ SampleIdle
    /\ qpc = "idle" /\ ndim = 2 /\ ngaus = NStations
    /\ list_logp = <<>> /\ list_tube = <<>>
    /\ call = NoCall /\ ret = NoRet
    /\ em_pc = "loop"
    /\ i_iter = 0
    /\ loglikelihood_previous = PosInf
    /\ loglikelihood_pY = PosInf
    /\ mu_w = 0
    /\ sig_w = 0
    /\ lastFinite = 0
    /\ em_out = 0

\* one pass of the body of `for i_iter in range(MAX_ITERATIONS)`: the E-step,
\* the M-step that overwrites mu_w and sig_w, the log-likelihood pY of the
\* pass, and the test that breaks or carries on
EMIterate(pY) ==
    /\ UNCHANGED <<valVars, sampleVars>>
    /\ em_pc = "loop"
    /\ i_iter < MAX_ITERATIONS
    /\ i_iter' = i_iter + 1
    /\ mu_w' = i_iter + 1
    /\ sig_w' = i_iter + 1
    /\ loglikelihood_pY' = pY
    /\ lastFinite' = IF IsFinite(pY) THEN i_iter + 1 ELSE lastFinite
    /\ IF IsFinite(pY)
       THEN IF Converged(pY, loglikelihood_previous)
            THEN /\ em_pc' = "project"
                 /\ UNCHANGED loglikelihood_previous
            ELSE /\ loglikelihood_previous' = pY
                 /\ em_pc' = IF i_iter + 1 < MAX_ITERATIONS THEN "loop" ELSE "project"
       ELSE /\ em_pc' = "project"
            /\ UNCHANGED loglikelihood_previous
    /\ UNCHANGED <<em_out, queryVars, poolVars, ctorVars, cellVars>>

\* after the loop: mu_y = Hp * mu_w, sig_y = Hp * sig_w * Hp.transpose()
EMProject ==
    /\ UNCHANGED <<valVars, sampleVars>>
    /\ em_pc = "project"
    /\ em_out' = [mu_y |-> mu_w, sig_y |-> sig_w]
    /\ em_pc' = "done"
    /\ UNCHANGED <<i_iter, loglikelihood_previous, loglikelihood_pY, mu_w, sig_w,
                   lastFinite, queryVars, poolVars, ctorVars, cellVars>>

NextEM ==
    \/ \E pY \in LogLikelihoods : EMIterate(pY)
    \/ EMProject

SpecEM == InitEM /\ [][NextEM]_vars

\* C3: when the loop has stopped on a non-finite log-likelihood after at
\* least one iteration with a finite one, the prior mean and covariance that
\* are projected are those of the last iteration whose log-likelihood was
\* finite.
C3_LastFiniteParameters ==
    (em_pc = "done" /\ ~IsFinite(loglikelihood_pY) /\ lastFinite >= 1) =>
        /\ em_out.mu_y = lastFinite
        /\ em_out.sig_y = lastFinite

\* whether the pass that computed pY after `previous` is one to stop at:
\* pY is not finite, or there was a pass before and pY is within 1e-3 of it
StopsAt(pY, previous) ==
    \/ pY[1] # "fin"
    \/ /\ previous[1] = "fin"
       /\ pY[2] - previous[2] < 10
       /\ previous[2] - pY[2] < 10

C4_Step ==
    /\ i_iter' <= 2001
    /\ (em_pc' = "loop") => (i_iter' < 2001)
    /\ (em_pc = "loop" /\ i_iter' = i_iter + 1) =>
          IF StopsAt(loglikelihood_pY', loglikelihood_previous)
          THEN em_pc' = "project"
          ELSE em_pc' = (IF i_iter' < 2001 THEN "loop" ELSE "project")

\* C4: the loop runs at most 2001 passes; a pass is the last one exactly
\* when its log-likelihood is not finite or differs from that of the pass
\* before by less than 1e-3, or when it is pass 2001.
C4_StopsAtFirst == [][C4_Step]_vars

\* C4's case: the loop ran to the cap, the last pass neither converged nor
\* gave a non-finite log-likelihood
C4_Witness ==
    /\ em_pc = "done"
    /\ i_iter = 2001
    /\ IsFinite(loglikelihood_pY)
    /\ loglikelihood_previous = loglikelihood_pY

-----------------------------------------------------------------------------
(* Model.__init__.  A settings value carries its Python type; a progress    *)
(* value is a fraction <<numerator, denominator>> in lowest terms; the      *)
(* positions of every observation are zero.  original_data is the list as   *)
(* the caller built it, cluster_data the same list object as it is now      *)

\* the largest progress value, the most trajectories, the largest ngaus
MaxProgress == 2
MaxTraj == 2
MaxGaus == 2

PyStr(v) == <<"str", v>>
PyInt(n) == <<"int", n>>
PyFloat(n) == <<"float", n>>

RECURSIVE GCD(_, _)
GCD(a, b) == IF b = 0 THEN a ELSE GCD(b, a % b)

\* the fraction n/d, d > 0, in lowest terms
Frac(n, d) == LET g == GCD(n, d) IN <<n \div g, d \div g>>

FracLess(a, b) == a[1] * b[2] < b[1] * a[2]

\* (a - b) / (c - b) for fractions
FracNorm(a, b, c) ==
    Frac((a[1] * b[2] - b[1] * a[2]) * (c[2] * b[2]),
         (c[1] * b[2] - b[1] * c[2]) * (a[2] * b[2]))

\* _getMinMax
GetMinMax(data) ==
    LET xs == {data[i].x[k] : i \in 1..Len(data), k \in 1..2}
    IN  [xmin |-> CHOOSE v \in xs : \A w \in xs : ~FracLess(w, v),
         xmax |-> CHOOSE v \in xs : \A w \in xs : ~FracLess(v, w)]

\* _getNorm
GetNorm(x, mm) == [k \in 1..Len(x) |-> FracNorm(x[k], mm.xmin, mm.xmax)]

\* the list after _normalise_data left every entry as it was
Normalise_data_Copy(data) == data

\* _normalise_data: entry i of the list is overwritten with (normalised x, Y)
Normalise_data(data) ==
    LET mm == GetMinMax(data)
    IN  [i \in 1..Len(data) |-> [x |-> GetNorm(data[i].x, mm), Y |-> data[i].Y]]

\* _getDimension
GetDimension(data) == Len(data[1].Y[1])

\* how the constructor ends: the exception or "constructed", the stage it
\* ended in, and whether a fit function was entered
End(status, stage, fitted) == [status |-> status, stage |-> stage, fitted |-> fitted]

Has(st, key) == key \in DOMAIN st

\* the checks of the settings, in the order of the code; "" when they pass
ValidateLoose(st) ==
    IF ~Has(st, "model_type") THEN "ValueError"
    ELSE IF st["model_type"][1] # "str" THEN "TypeError"
    ELSE IF ~Has(st, "ngaus") THEN "ValueError"
    ELSE IF st["ngaus"][1] # "int" THEN "TypeError"
    ELSE IF st["model_type"][2] \in {"ML", "EM"}
         THEN IF ~Has(st, "basis_type") THEN "ValueError"
              ELSE IF ~Has(st, "nbasis") THEN "ValueError"
              ELSE IF st["nbasis"][2] < 1 THEN "ValueError"
              ELSE ""
    ELSE ""

Validate(st) ==
    IF ~Has(st, "model_type") THEN "ValueError"
    ELSE IF st["model_type"][1] # "str" THEN "TypeError"
    ELSE IF ~Has(st, "ngaus") THEN "ValueError"
    ELSE IF st["ngaus"][1] # "int" THEN "TypeError"
    ELSE IF st["model_type"][2] \in {"ML", "EM"}
         THEN IF ~Has(st, "basis_type") THEN "ValueError"
              ELSE IF ~Has(st, "nbasis") THEN "ValueError"
              ELSE IF st["nbasis"][2] < 2 THEN "ValueError"
              ELSE ""
    ELSE ""

\* the ways the dispatch on model_type and the fit can end.  np.linspace and
\* np.empty raise ValueError for a negative ngaus inside _model_by_resampling;
\* in _model_by_ml and _model_by_em, what ngaus <= 0 does depends on the
\* basis and on the numpy release: either may happen
FitEnds(st) ==
    LET type == st["model_type"][2]
        n == st["ngaus"][2]
    IN  IF type = "resampling"
        THEN IF n < 0 THEN {End("ValueError", "fit", TRUE)}
             ELSE {End("constructed", "done", TRUE)}
        ELSE IF type \in {"ML", "EM"}
        THEN IF n <= 0
             THEN {End("ValueError", "fit", TRUE), End("constructed", "done", TRUE)}
             ELSE {End("constructed", "done", TRUE)}
        ELSE {End("NotImplementedError", "dispatch", FALSE)}

Progresses ==
    {<<Frac(a, 1), Frac(b, 1)>> : a \in 0..MaxProgress, b \in 0..MaxProgress}

Trajectories(d) ==
    {[x |-> x, Y |-> <<[k \in 1..d |-> 0], [k \in 1..d |-> 0]>>] :
        x \in {p \in Progresses : FracLess(p[1], p[2])}}

ClusterDatas ==
    UNION {[1..n -> Trajectories(d)] : n \in 1..MaxTraj, d \in {2, 3}}

SettingFields ==
    [model_type : {PyStr("resampling"), PyStr("ML"), PyStr("EM"), PyStr("spline"), PyInt(1)},
     ngaus : {PyInt(n) : n \in (0 - 1)..MaxGaus} \cup {PyFloat(2)},
     basis_type : {PyStr("gaussian")},
     nbasis : {PyInt(1), PyInt(2), PyInt(3)}]

\* a settings dict: any of the four keys may be absent
Restrict(f, keys) == [k \in keys |-> f[k]]
Settings ==
    {Restrict(f, keys) : f \in SettingFields,
                         keys \in SUBSET {"model_type", "ngaus", "basis_type", "nbasis"}}

Pending == End("", "pending", FALSE)

InitCtor ==
    /\ PoolIdle /\ EmIdle /\ CellIdle /\ ValIdle /\ SampleIdle
    /\ qpc = "idle" /\ ndim = 0 /\ ngaus = 0
    /\ list_logp = <<>> /\ list_tube = <<>>
    /\ call = NoCall /\ ret = NoRet
    /\ original_data \in ClusterDatas
    /\ cluster_data = original_data
    /\ settings \in Settings
    /\ ctor = Pending

\* Model(cluster_data, settings)
Construct ==
    /\ UNCHANGED <<valVars, sampleVars>>
    /\ ctor = Pending
    /\ IF Validate(settings) # ""
       THEN /\ ctor' = End(Validate(settings), "validate", FALSE)
            /\ UNCHANGED <<cluster_data, ndim, ngaus, mu_y, mat>>
       ELSE /\ ndim' = GetDimension(cluster_data)
            /\ cluster_data' = Normalise_data(cluster_data)
            /\ \E e \in FitEnds(settings) :
                  /\ ctor' = e
                  /\ IF e.status = "constructed"
                     THEN /\ ngaus' = settings["ngaus"][2]
                          /\ mu_y' = [k \in 1..(ndim' * SetMax({0, ngaus'})) |-> 0]
                          /\ mat' = (settings["model_type"][2] \in {"ML", "EM"})
                     ELSE UNCHANGED <<ngaus, mu_y, mat>>
    /\ UNCHANGED <<original_data, settings, npoint, cell, mean, qpc, list_logp, list_tube,
                   call, ret, poolVars, emVars>>

NextCtor == Construct

SpecCtor == InitCtor /\ [][NextCtor]_vars

\* C7: a constructor call whose settings have no ngaus, an ngaus that is
\* not an int, or an ngaus that is zero or negative ends with an error
\* raised while the settings are checked, before a fit function is entered.
C7_NgausRejected ==
    (ctor # Pending /\
     (\/ ~Has(settings, "ngaus")
      \/ settings["ngaus"][1] # "int"
      \/ settings["ngaus"][2] <= 0)) =>
        /\ ctor.status \in {"ValueError", "TypeError"}
        /\ ctor.stage = "validate"

\* the settings have a string model_type and an int ngaus
WellTyped(st) ==
    /\ Has(st, "model_type") /\ st["model_type"][1] = "str"
    /\ Has(st, "ngaus") /\ st["ngaus"][1] = "int"

\* C8: with model_type ML or EM, settings that lack basis_type, lack nbasis
\* or have nbasis < 2 end the constructor with an error before any fit step;
\* with model_type resampling, settings without basis_type and nbasis do not
\* fail the checks of the settings.
C8_BasisRequired ==
    (ctor # Pending /\ WellTyped(settings)) =>
        /\ (/\ settings["model_type"][2] \in {"ML", "EM"}
            /\ (\/ ~Has(settings, "basis_type")
                \/ ~Has(settings, "nbasis")
                \/ settings["nbasis"][2] < 2))
           => (ctor.status = "ValueError" /\ ctor.stage = "validate" /\ ~ctor.fitted
               /\ cluster_data = original_data)
        /\ (/\ settings["model_type"][2] = "resampling"
            /\ ~Has(settings, "basis_type")
            /\ ~Has(settings, "nbasis"))
           => /\ ctor.stage # "validate"
              /\ ctor.fitted
              /\ settings["ngaus"][2] >= 1 => ctor.status = "constructed"

\* C8's cases: an EM model with nbasis = 1 was refused, and a resampling
\* model without basis settings was constructed
C8_Witness ==
    /\ ctor.status = "ValueError"
    /\ WellTyped(settings)
    /\ settings["model_type"][2] = "EM"
    /\ Has(settings, "basis_type")
    /\ Has(settings, "nbasis")
    /\ settings["nbasis"][2] = 1

\* C9: once the constructor has returned or raised, every pair of the
\* caller's list has the progress values it had before the call.
C9_CallerDataUntouched ==
    (ctor # Pending) =>
        \A i \in 1..Len(original_data) : cluster_data[i].x = original_data[i].x

-----------------------------------------------------------------------------
(* _getMuSigma on the stacked mean mu_y of ndim * ngaus values.  The cell's *)
(* covariance block is given by the index pairs of sig_y it is read from    *)

NoCell == [exc |-> "none", c |-> <<>>, A |-> <<>>]

\* whether a 0-based index, negative ones counted from the end, is inside an
\* axis of length n
InAxis(i, n) == 0 - n <= i /\ i < n

\* element i of a, 0-based, negative indices counted from the end
PyAt(a, i) == IF i < 0 THEN a[Len(a) + i + 1] ELSE a[i + 1]

\* the cell extraction from validated indices on
SelectCell(mu, n, ng) ==
    IF \E d \in 0..(ndim - 1) : ~InAxis(n + d * ng, Len(mu))
    THEN [exc |-> "IndexError", c |-> <<>>, A |-> <<>>]
    ELSE [exc |-> "",
          c |-> [d \in 1..ndim |-> PyAt(mu, n + (d - 1) * ng)],
          A |-> [r \in 1..ndim |-> [k \in 1..ndim |->
                    <<n + (r - 1) * ng, n + (k - 1) * ng>>]]]

\* the range check that lets npoint = ngaus through
RunGetMuSigma_OffByOne(mu, n, ng) ==
    IF n < 0 \/ n > ng
    THEN [exc |-> "ValueError", c |-> <<>>, A |-> <<>>]
    ELSE SelectCell(mu, n, ng)

\* _getMuSigma
RunGetMuSigma(mu, n, ng) ==
    IF n < 0 \/ n >= ng
    THEN [exc |-> "ValueError", c |-> <<>>, A |-> <<>>]
    ELSE SelectCell(mu, n, ng)

NoMean == [shape |-> <<>>, data |-> <<>>]

\* getMean.  Y = np.reshape(mu_y, (-1, ndim), order='F') has Y[m, d] =
\* mu_y[m + d*S]; the columns x, y, z (z all zero when ndim = 2) are stacked
\* by np.array([x, y, z]).T.  A column of an ndarray has shape (S,), which
\* gives the shape (S, 3); a column of an np.matrix has shape (S, 1), which
\* gives (3, S, 1) and, transposed, (1, S, 3)
RunGetMean(mu, isMatrix) ==
    LET S == Len(mu) \div ndim
        Y(m, d) == mu[m + d * S + 1]
        point(m) == <<Y(m, 0), Y(m, 1), IF ndim = 2 THEN 0 ELSE Y(m, 2)>>
        points == [m \in 1..S |-> point(m - 1)]
    IN  IF isMatrix
        THEN [shape |-> <<1, S, 3>>, data |-> <<points>>]
        ELSE [shape |-> <<S, 3>>, data |-> points]

InitCells ==
    /\ PoolIdle /\ EmIdle /\ CtorIdle /\ ValIdle /\ SampleIdle
    /\ qpc = "idle"
    /\ list_logp = <<>> /\ list_tube = <<>>
    /\ call = NoCall /\ ret = NoRet
    /\ ndim \in {2, 3}
    /\ ngaus \in 1..NStations
    /\ mu_y \in [1..(ndim * ngaus) -> {0, 1}]
    /\ mat \in BOOLEAN
    /\ npoint = 0
    /\ cell = NoCell
    /\ mean = NoMean

\* self._getMuSigma(self._mu_y, self._sig_y, n, ngaus)
GetMuSigma(n) ==
    /\ UNCHANGED <<valVars, sampleVars>>
    /\ npoint' = n
    /\ cell' = RunGetMuSigma(mu_y, n, ngaus)
    /\ UNCHANGED <<mu_y, mat, mean, queryVars, poolVars, emVars, ctorVars>>

\* self.getMean()
GetMean ==
    /\ UNCHANGED <<valVars, sampleVars>>
    /\ mean' = RunGetMean(mu_y, mat)
    /\ UNCHANGED <<mu_y, mat, npoint, cell, queryVars, poolVars, emVars, ctorVars>>

NextCells ==
    \/ \E n \in (0 - 2)..(NStations + 1) : GetMuSigma(n)
    \/ GetMean

SpecCells == InitCells /\ [][NextCells]_vars

\* C10: _getMuSigma raises ValueError for every npoint below 0 and every
\* npoint from the station count up, and for every npoint in between returns
\* the cell whose mean is read from mu_y at npoint + d * ngaus.
C10_RangeChecked ==
    (cell # NoCell) =>
        IF npoint < 0 \/ npoint >= ngaus
        THEN cell.exc = "ValueError"
        ELSE /\ cell.exc = ""
             /\ \A d \in 1..ndim : cell.c[d] = mu_y[npoint + (d - 1) * ngaus + 1]

\* C10's case: of several stations, the last one was extracted
C10_Witness ==
    /\ cell.exc = ""
    /\ ngaus >= 2
    /\ npoint = ngaus - 1

\* C11: getMean returns exactly as many points as the model has stations,
\* and each point has exactly ndim coordinates.
C11_MeanShape ==
    (mean # NoMean) =>
        /\ Len(mean.data) = ngaus
        /\ \A m \in 1..Len(mean.data) : Len(mean.data[m]) = ndim

\* C18: the mean of station cell m in coordinate d is mu_y[m + d*S], every
\* index m + d*S lies in [0, D*S), and row m of getMean has the same value
\* in coordinate d.
C18_LayoutConsistent ==
    (cell # NoCell /\ cell.exc = "" /\ mean # NoMean) =>
        \A d \in 0..(ndim - 1) :
            /\ 0 <= npoint + d * ngaus
            /\ npoint + d * ngaus < ndim * ngaus
            /\ cell.c[d + 1] = mu_y[npoint + d * ngaus + 1]
            /\ cell.A[d + 1][d + 1] = <<npoint + d * ngaus, npoint + d * ngaus>>
            /\ Len(mean.shape) = 2
            /\ npoint < mean.shape[1]
            /\ mean.data[npoint + 1][d + 1] = cell.c[d + 1]

-----------------------------------------------------------------------------
(* The grid conversion and the end of evalLogLikelihood, for every value    *)
(* the per-point evaluation can hand back                                   *)

\* what the evaluation of one point can be
PointValues == {Fin(0), Fin(1), NaN, PosInf, NegInf}

NoOut == [exc |-> "none", ss |-> NoneSS]

InitValues ==
    /\ PoolIdle /\ EmIdle /\ CtorIdle /\ CellIdle /\ SampleIdle
    /\ qpc = "idle"
    /\ ndim \in {2, 3}
    /\ ngaus = NStations
    /\ list_logp = <<>>
    /\ list_tube = <<>>
    /\ call = NoCall
    /\ ret = NoRet
    /\ gq \in {g \in PoolGrids : NPoints(g) <= MaxPoints}
    /\ gs \in [1..NPoints(gq) -> PointValues]
    /\ gout = NoOut

\* (Y_pos, Y_idx) = self._grid2points(xx, yy, zz), then
\* self._points2grid(s, Y_idx) for the array s of the points' values
RoundTrip ==
    /\ gout = NoOut
    /\ gout' = Points2grid([shape |-> <<Len(gs)>>, vals |-> gs],
                           Grid2points(gq.xx, gq.yy, gq.zz).Y_idx)
    /\ UNCHANGED <<gq, gs, queryVars, poolVars, emVars, ctorVars, cellVars, sampleVars>>

\* evalLogLikelihood(xx, yy, zz) on the new instance, the workers handing
\* back the values gs
EvalLogLikelihood_Values ==
    /\ qpc = "idle"
    /\ gq.xx.shape = gq.yy.shape
    /\ LookupLogp(gq.xx, gq.yy, gq.zz) = NoneSS
    /\ LET m == PoolMap(gs, FALSE)
           r == ScatterLogp(SqueezeList(m.list_val),
                            Grid2points(gq.xx, gq.yy, gq.zz).Y_idx)
       IN  /\ ret' = r
           /\ call' = [op |-> "logp", sdwidth |-> 0,
                       xx |-> gq.xx, yy |-> gq.yy, zz |-> gq.zz]
           /\ list_logp' = IF r.stored
                           THEN StoreEntry(list_logp, EntryOf(call', r))
                           ELSE list_logp
    /\ qpc' = "returned"
    /\ UNCHANGED <<ndim, ngaus, list_tube, valVars, poolVars, emVars, ctorVars,
                   cellVars, sampleVars>>

NextValues ==
    \/ RoundTrip
    \/ EvalLogLikelihood_Values

SpecValues == InitValues /\ [][NextValues]_vars

\* the axis lengths (nx, ny[, nz]) of the grid
GridShape == gq.xx.shape

\* the coordinates the axes give for a multi-index
CoordsAt(idx) ==
    IF ndim = 2 THEN <<gq.xx.vals[idx[1] + 1], gq.yy.vals[idx[2] + 1]>>
    ELSE <<gq.xx.vals[idx[1] + 1], gq.yy.vals[idx[2] + 1], gq.zz.vals[idx[3] + 1]>>

\* C13: _grid2points lists every multi-index of the grid exactly once, with
\* the coordinates of that multi-index, and _points2grid applied to one value
\* per point and that index list returns an array of the grid's shape whose
\* cell at each multi-index holds the value of the point listed for it.
C13_RoundTrip ==
    LET P == Grid2points(gq.xx, gq.yy, gq.zz)
    IN  /\ Len(P.Y_idx) = Cardinality(Indices(GridShape))
        /\ Len(P.Y_pos) = Len(P.Y_idx)
        /\ \A idx \in Indices(GridShape) :
              \E k \in 1..Len(P.Y_idx) :
                  /\ P.Y_idx[k] = idx
                  /\ P.Y_pos[k] = CoordsAt(idx)
                  /\ gout # NoOut =>
                        /\ gout.exc = ""
                        /\ gout.ss.shape = GridShape
                        /\ gout.ss.data[idx] = gs[k]

\* C13's case: a grid of several points with different values went through
\* both conversions
C13_Witness ==
    /\ gout # NoOut
    /\ Len(gs) >= 3
    /\ gs[1] # gs[2] /\ gs[2] # gs[3] /\ gs[1] # gs[3]

\* C16: every array that evalLogLikelihood returns and stores has finite
\* entries only.
C16_OnlyFinite ==
    (qpc = "returned" /\ ret.exc = "") =>
        /\ \A idx \in DOMAIN ret.ss.data : IsFinite(ret.ss.data[idx])
        /\ \A i \in 1..Len(list_logp) :
              \A idx \in DOMAIN list_logp[i].ss.data : IsFinite(list_logp[i].ss.data[idx])

-----------------------------------------------------------------------------
(* isInside_pnts on the points of a grid, for instances of one station and  *)
(* more                                                                     *)

\* the points P handed to isInside_pnts
TubePoints == Grid2points(gq.xx, gq.yy, gq.zz).Y_pos

InitTube ==
    /\ PoolIdle /\ EmIdle /\ CtorIdle /\ CellIdle /\ SampleIdle
    /\ qpc = "idle"
    /\ ndim \in {2, 3}
    /\ ngaus \in 1..(NStations + 1)
    /\ list_logp = <<>>
    /\ list_tube = <<>>
    /\ call = NoCall
    /\ ret = NoRet
    /\ gq \in {g \in PoolGrids : NPoints(g) <= MaxPoints}
    /\ gs = <<>>
    /\ gout = NoOut

\* self.isInside_pnts(P, sdwidth, nsamples=12)
IsInsidePnts(sdwidth) ==
    /\ gout = NoOut
    /\ LET r == IsInside_pnts(TubePoints, sdwidth, TubeSamples, FALSE)
       IN  gout' = [exc |-> r.exc, ss |-> [shape |-> r.s.shape, data |-> r.s.vals]]
    /\ call' = [op |-> "pnts", sdwidth |-> sdwidth, xx |-> gq.xx, yy |-> gq.yy, zz |-> gq.zz]
    /\ UNCHANGED <<qpc, ndim, ngaus, list_logp, list_tube, ret, gq, gs,
                   poolVars, emVars, ctorVars, cellVars, sampleVars>>

NextTube == \E sdwidth \in Sdwidths : IsInsidePnts(sdwidth)

SpecTube == InitTube /\ [][NextTube]_vars

\* C14: on an instance of two stations or more, isInside_pnts builds one
\* cloud per pair of consecutive stations and returns a vector of one entry
\* per point, entry k being true exactly when point k is inside the hull of
\* at least one cloud.
C14_InsideAnySegment ==
    (gout # NoOut /\ ngaus >= 2) =>
        LET list_Y == Get_point_cloud(call.sdwidth, TubeSamples)
        IN  /\ Len(list_Y) = ngaus - 1
            /\ gout.exc = ""
            /\ gout.ss.shape = <<Len(TubePoints)>>
            /\ \A k \in 1..Len(TubePoints) :
                  (gout.ss.data[k] = Fin(1)) <=>
                      \E i \in 1..Len(list_Y) : In_hull(TubePoints[k], list_Y[i])

-----------------------------------------------------------------------------
(* Queries whose axis arrays come from different grids *)

\* two grids of different shapes
ShapeBases ==
    IF ndim = 2
    THEN {Mgrid2(<<0, 2>>, <<0>>), Mgrid2(<<0>>, <<0, 2>>)}
    ELSE {Mgrid3(<<0, 2>>, <<0>>, <<0>>), Mgrid3(<<0>>, <<0>>, <<0, 2>>)}

\* xx of one, yy of one, zz of one
MixedGrids == {[xx |-> a.xx, yy |-> b.yy, zz |-> c.zz] : a, b, c \in ShapeBases}

NextShapes ==
    \/ \E g \in MixedGrids, wf \in BOOLEAN : EvalLogLikelihood(g, wf)
    \/ \E w \in Sdwidths, g \in MixedGrids, wf \in BOOLEAN : IsInside_grid(w, g, wf)
    \/ Return

SpecShapes == InitQuery /\ [][NextShapes]_vars

\* the shapes of the axes of the call disagree
ShapesDisagree ==
    \/ call.xx.shape # call.yy.shape
    \/ ndim = 3 /\ (call.zz.shape # call.xx.shape \/ call.zz.shape # call.yy.shape)

\* C15: a call whose axis shapes disagree (xx against yy, and in a 3-d
\* instance zz against xx and yy) raises the dimension error before
\* anything is evaluated and without an entry being stored.
C15_ShapeMismatchRejected ==
    (qpc = "returned" /\ ShapesDisagree) =>
        /\ ret.exc = "ValueError"
        /\ ~ret.evaluated
        /\ ~ret.stored

-----------------------------------------------------------------------------
(* getSamples and numpy's global random generator.  The generator is a      *)
(* state in 0..RngMod-1 that every draw of a vector advances; the vector    *)
(* drawn is a function of the state it is drawn in                          *)

RngMod == 16
MaxSamples == 3
SEED == 10

\* the generator's state after one draw
NextRng(r) == (5 * r + 3) % RngMod

\* the state after k draws
RECURSIVE RngAfter(_, _)
RngAfter(r, k) == IF k = 0 THEN r ELSE RngAfter(NextRng(r), k - 1)

\* a seeding that leaves the generator as it is
SeedRandom_Keep(r, seed) == r

\* np.random.seed(seed=...)
SeedRandom(r, seed) == seed % RngMod

\* getSamples(nsamples): seed, then one np.random.normal vector per sample;
\* sample n is mu_y + var_y * vecRandom, a function of the vector drawn
RunGetSamples(r, nsamples) ==
    LET r0 == SeedRandom(r, SEED)
    IN  [out |-> [n \in 1..nsamples |-> RngAfter(r0, n - 1)],
         rng |-> RngAfter(r0, nsamples)]

NoSamples == [n |-> 0, out |-> <<>>, before |-> 0]

InitSamples ==
    /\ PoolIdle /\ EmIdle /\ CtorIdle /\ CellIdle /\ ValIdle
    /\ qpc = "idle" /\ ndim = 2 /\ ngaus = NStations
    /\ list_logp = <<>> /\ list_tube = <<>>
    /\ call = NoCall /\ ret = NoRet
    /\ rng \in 0..(RngMod - 1)
    /\ samples = NoSamples
    /\ first = <<>>

\* self.getSamples(n)
GetSamples(n) ==
    /\ LET r == RunGetSamples(rng, n)
           this == [n |-> n, out |-> r.out, before |-> rng]
       IN  /\ rng' = r.rng
           /\ samples' = this
           /\ first' = [k \in (DOMAIN first) \cup {n} |->
                           IF k # n THEN first[k]
                           ELSE IF n \in DOMAIN first
                                THEN [first[n] EXCEPT !.again = TRUE]
                                ELSE [out |-> r.out, again |-> FALSE]]
    /\ UNCHANGED <<queryVars, poolVars, emVars, ctorVars, cellVars, valVars>>

\* self._getSample(c, A): np.random.normal without a seed
GetSample ==
    /\ rng' = NextRng(rng)
    /\ UNCHANGED <<samples, first, queryVars, poolVars, emVars, ctorVars, cellVars, valVars>>

\* the caller seeds the generator itself
CallerSeed(seed) ==
    /\ rng' = SeedRandom(rng, seed)
    /\ UNCHANGED <<samples, first, queryVars, poolVars, emVars, ctorVars, cellVars, valVars>>

NextSamples ==
    \/ \E n \in 1..MaxSamples : GetSamples(n)
    \/ GetSample
    \/ \E seed \in 0..(RngMod - 1) : CallerSeed(seed)

SpecSamples == InitSamples /\ [][NextSamples]_vars

\* C12: a getSamples(n) call returns what the first getSamples(n) call on
\* the instance returned, whatever was drawn or seeded in between.
C12_SamplesReproducible ==
    (samples # NoSamples) => samples.out = first[samples.n].out

\* C12's case: a repeated call with the same n that found the generator in
\* a state other than the seeded one
C12_Witness ==
    /\ samples # NoSamples
    /\ samples.n >= 2
    /\ first[samples.n].again
    /\ samples.before # SeedRandom(0, SEED)

-----------------------------------------------------------------------------
(* The caches and the caller's arrays.  An entry is appended as            *)
(* [ss, xx, yy, zz]: the list holds the caller's own axis arrays and the   *)
(* very array that is returned, so an assignment the caller makes into one *)
(* of them is an assignment into the entry                                 *)

\* grids of one shape, so that no two of them compare equal by broadcasting
AliasGrids == {Mgrid2(xs, <<0>>) : xs \in {<<0, 2>>, <<2, 2>>}}

\* xx[0, 0] = v, on an array stored in entry i of the list
AssignAxis(list, i, v) == [list EXCEPT ![i].xx.vals[1] = v]

\* ss[0, 0] = v, on a result stored in entry i of the list
AssignResult(list, i, v) == [list EXCEPT ![i].ss.data[<<0, 0>>] = v]

InitAlias ==
    /\ InitQuery
    /\ ndim = 2

\* the caller writes into an axis array it passed to an earlier call
MutateAxis ==
    /\ qpc = "idle"
    /\ \E v \in {0, 2} :
          \/ \E i \in 1..Len(list_logp) :
                /\ list_logp[i].xx.vals[1] # v
                /\ list_logp' = AssignAxis(list_logp, i, v)
                /\ UNCHANGED list_tube
          \/ \E i \in 1..Len(list_tube) :
                /\ list_tube[i].xx.vals[1] # v
                /\ list_tube' = AssignAxis(list_tube, i, v)
                /\ UNCHANGED list_logp
    /\ UNCHANGED <<qpc, ndim, ngaus, call, ret, poolVars, emVars, ctorVars,
                   cellVars, valVars, sampleVars>>

\* the caller writes into a result array an earlier call returned
MutateResult ==
    /\ qpc = "idle"
    /\ \/ \E i \in 1..Len(list_logp) :
             /\ list_logp[i].ss.data[<<0, 0>>] # Fin(1)
             /\ list_logp' = AssignResult(list_logp, i, Fin(1))
             /\ UNCHANGED list_tube
       \/ \E i \in 1..Len(list_tube) :
             /\ list_tube[i].ss.data[<<0, 0>>] # Fin(1)
             /\ list_tube' = AssignResult(list_tube, i, Fin(1))
             /\ UNCHANGED list_logp
    /\ UNCHANGED <<qpc, ndim, ngaus, call, ret, poolVars, emVars, ctorVars,
                   cellVars, valVars, sampleVars>>

NextAlias ==
    \/ \E g \in AliasGrids, wf \in BOOLEAN : EvalLogLikelihood(g, wf)
    \/ \E g \in AliasGrids, wf \in BOOLEAN : IsInside_grid(1, g, wf)
    \/ Return
    \/ MutateAxis
    \/ MutateResult

SpecAlias == InitAlias /\ [][NextAlias]_vars

\* what the miss branch computes for the arguments of call c
FreshResult(c) ==
    LET g == Grid2points(c.xx, c.yy, c.zz)
    IN  IF c.op = "logp"
        THEN ScatterLogp(Eval_logp(g.Y_pos, FALSE).s, g.Y_idx).ss
        ELSE Points2grid(IsInside_pnts(g.Y_pos, c.sdwidth, TubeSamples, FALSE).s,
                         g.Y_idx).ss

\* C17: whatever the caller wrote into arrays it passed or received
\* earlier, a call that returns an array returns what an evaluation of its
\* own arguments gives.
C17_CacheIsolated ==
    (qpc = "returned" /\ ret.exc = "") => ret.ss = FreshResult(call)

=============================================================================
